---- MODULE Spec2Model ----
(***************************************************************************)
(* Register-level model of the ILPS28QSW driver (ilps28qsw_reg.c).         *)
(*                                                                         *)
(* The device is a register file behind the transport functions            *)
(* ilps28qsw_read_reg / ilps28qsw_write_reg.  Every driver function is one *)
(* action: it runs its whole sequence of transport calls, leaves the calls *)
(* it made in `log`, its return status in `ret` and what it stored through *)
(* its output pointer in `out`.                                            *)
(***************************************************************************)
EXTENDS Integers, Sequences, FiniteSets, TLC

VARIABLES
  regs,   \* device register file: address -> byte
  pre,    \* the register file when the last call started
  op,     \* name of the driver function called last ("none": no call yet)
  arg,    \* the argument of the last call that took one
  out,    \* what the last call stored through its output pointer
  ret,    \* the int32_t status it returned
  log,    \* the transport calls it made, in order
  prev    \* [op, ret] of the call before it

vars == <<regs, pre, op, arg, out, ret, log, prev>>

(***************************************************************************)
(* Register map and enumerations of ilps28qsw_reg.h.                       *)
(***************************************************************************)
ILPS28QSW_INTERRUPT_CFG == 11
ILPS28QSW_THS_P_L == 12
ILPS28QSW_THS_P_H == 13
ILPS28QSW_IF_CTRL == 14
ILPS28QSW_CTRL_REG1 == 16
ILPS28QSW_CTRL_REG2 == 17
ILPS28QSW_CTRL_REG3 == 18
ILPS28QSW_FIFO_CTRL == 20
ILPS28QSW_FIFO_WTM == 21
ILPS28QSW_I3C_IF_CTRL == 25
ILPS28QSW_RPDS_L == 26
ILPS28QSW_RPDS_H == 27
ILPS28QSW_PRESS_OUT_XL == 40
ILPS28QSW_FIFO_DATA_OUT_PRESS_XL == 120

PROPERTY_DISABLE == 0
PROPERTY_ENABLE == 1

ILPS28QSW_1260hPa == 0
ILPS28QSW_4060hPa == 1

ILPS28QSW_ONE_SHOT == 0
ILPS28QSW_1Hz == 1
ILPS28QSW_4Hz == 2
ILPS28QSW_10Hz == 3
ILPS28QSW_25Hz == 4
ILPS28QSW_50Hz == 5
ILPS28QSW_75Hz == 6
ILPS28QSW_100Hz == 7
ILPS28QSW_200Hz == 8

ILPS28QSW_4_AVG == 0
ILPS28QSW_8_AVG == 1
ILPS28QSW_16_AVG == 2
ILPS28QSW_32_AVG == 3
ILPS28QSW_64_AVG == 4
ILPS28QSW_128_AVG == 5
ILPS28QSW_256_AVG == 6
ILPS28QSW_512_AVG == 7

ILPS28QSW_LPF_DISABLE == 0
ILPS28QSW_LPF_ODR_DIV_4 == 1
ILPS28QSW_LPF_ODR_DIV_9 == 3

ILPS28QSW_BYPASS == 0
ILPS28QSW_FIFO == 1
ILPS28QSW_STREAM == 2
ILPS28QSW_STREAM_TO_FIFO == 7
ILPS28QSW_BYPASS_TO_STREAM == 6
ILPS28QSW_BYPASS_TO_FIFO == 5

ILPS28QSW_DRV_RDY == 0
ILPS28QSW_BOOT == 1
ILPS28QSW_RESET == 2

ILPS28QSW_OUT_AND_INTERRUPT == 0
ILPS28QSW_ONLY_INTERRUPT == 1
ILPS28QSW_RST_REFS == 2

\* The enumerators of each enum type.
OdrValues ==
  {ILPS28QSW_ONE_SHOT, ILPS28QSW_1Hz, ILPS28QSW_4Hz, ILPS28QSW_10Hz,
   ILPS28QSW_25Hz, ILPS28QSW_50Hz, ILPS28QSW_75Hz, ILPS28QSW_100Hz,
   ILPS28QSW_200Hz}
AvgValues ==
  {ILPS28QSW_4_AVG, ILPS28QSW_8_AVG, ILPS28QSW_16_AVG, ILPS28QSW_32_AVG,
   ILPS28QSW_64_AVG, ILPS28QSW_128_AVG, ILPS28QSW_256_AVG, ILPS28QSW_512_AVG}
FsValues == {ILPS28QSW_1260hPa, ILPS28QSW_4060hPa}
LpfValues ==
  {ILPS28QSW_LPF_DISABLE, ILPS28QSW_LPF_ODR_DIV_4, ILPS28QSW_LPF_ODR_DIV_9}
FifoOperationValues ==
  {ILPS28QSW_BYPASS, ILPS28QSW_FIFO, ILPS28QSW_STREAM,
   ILPS28QSW_STREAM_TO_FIFO, ILPS28QSW_BYPASS_TO_STREAM,
   ILPS28QSW_BYPASS_TO_FIFO}

(***************************************************************************)
(* Bit-fields of the register structs: lo is the position of the field's   *)
(* lowest bit, w its width.                                                *)
(***************************************************************************)
ctrl_reg1_avg == [lo |-> 0, w |-> 3]
ctrl_reg1_odr == [lo |-> 3, w |-> 4]

ctrl_reg2_oneshot == [lo |-> 0, w |-> 1]
ctrl_reg2_swreset == [lo |-> 2, w |-> 1]
ctrl_reg2_bdu == [lo |-> 3, w |-> 1]
ctrl_reg2_en_lpfp == [lo |-> 4, w |-> 1]
ctrl_reg2_lfpf_cfg == [lo |-> 5, w |-> 1]
ctrl_reg2_fs_mode == [lo |-> 6, w |-> 1]
ctrl_reg2_boot == [lo |-> 7, w |-> 1]

ctrl_reg3_if_add_inc == [lo |-> 0, w |-> 1]
ctrl_reg3_ah_qvar_p_auto_en == [lo |-> 5, w |-> 1]
ctrl_reg3_ah_qvar_en == [lo |-> 7, w |-> 1]

fifo_ctrl_f_mode == [lo |-> 0, w |-> 2]
fifo_ctrl_trig_modes == [lo |-> 2, w |-> 1]
fifo_ctrl_stop_on_wtm == [lo |-> 3, w |-> 1]
fifo_ctrl_ah_qvar_p_fifo_en == [lo |-> 4, w |-> 1]

fifo_wtm_wtm == [lo |-> 0, w |-> 7]

interrupt_cfg_phe == [lo |-> 0, w |-> 1]
interrupt_cfg_ple == [lo |-> 1, w |-> 1]
interrupt_cfg_lir == [lo |-> 2, w |-> 1]
interrupt_cfg_reset_az == [lo |-> 4, w |-> 1]
interrupt_cfg_autozero == [lo |-> 5, w |-> 1]
interrupt_cfg_reset_arp == [lo |-> 6, w |-> 1]
interrupt_cfg_autorefp == [lo |-> 7, w |-> 1]

if_ctrl_sda_pu_en == [lo |-> 4, w |-> 1]
i3c_if_ctrl_I3C_Bus_Avb_Sel == [lo |-> 0, w |-> 2]
i3c_if_ctrl_asf_on == [lo |-> 5, w |-> 1]

ths_p_l_ths == [lo |-> 0, w |-> 8]
ths_p_h_ths == [lo |-> 0, w |-> 8]

\* Reading a bit-field of a byte, and assigning to it: the assignment keeps
\* the low w bits of the value, as a C bit-field does.
Get(b, f) == (b \div (2 ^ f.lo)) % (2 ^ f.w)
Put(b, f, v) == b - (Get(b, f) * (2 ^ f.lo)) + ((v % (2 ^ f.w)) * (2 ^ f.lo))

Byte == 0 .. 255

\* C's &, >>, << and | as the driver uses them: every mask is a run of w
\* bits from bit lo, and every | joins values with no bit in common.
BitAnd(v, lo, w) == ((v \div (2 ^ lo)) % (2 ^ w)) * (2 ^ lo)
Shr(v, n) == v \div (2 ^ n)
Shl(v, n) == v * (2 ^ n)
BitOr(a, b) == a + b

(***************************************************************************)
(* The transport.  A bus state is the register file with the calls made on *)
(* it so far.  A read of len registers delivers the consecutive bytes from *)
(* reg; a write stores them.  A call that returns a non-zero status moves  *)
(* no data: the failed write leaves the registers alone and the failed     *)
(* read leaves the caller's buffer as it was.                              *)
(***************************************************************************)
RegAddrs ==
  {ILPS28QSW_INTERRUPT_CFG, ILPS28QSW_THS_P_L, ILPS28QSW_THS_P_H,
   ILPS28QSW_CTRL_REG1, ILPS28QSW_CTRL_REG2, ILPS28QSW_CTRL_REG3,
   ILPS28QSW_FIFO_CTRL, ILPS28QSW_FIFO_WTM,
   ILPS28QSW_RPDS_L, ILPS28QSW_RPDS_H,
   ILPS28QSW_IF_CTRL, ILPS28QSW_I3C_IF_CTRL}

Bus(r) == [regs |-> r, log |-> <<>>]

ReadCall(reg, len, status) ==
  [rw |-> "r", reg |-> reg, len |-> len, data |-> <<>>, st |-> status]
WriteCall(reg, data, status) ==
  [rw |-> "w", reg |-> reg, len |-> Len(data), data |-> data, st |-> status]

\* The bytes a successful read of len registers from reg delivers.
ReadData(r, reg, len) == [i \in 1 .. len |-> r[reg + i - 1]]

ilps28qsw_read_reg(bus, reg, len, status) ==
  [bus EXCEPT !.log = Append(@, ReadCall(reg, len, status))]

ilps28qsw_write_reg(bus, reg, data, status) ==
  [regs |-> IF status = 0
            THEN [a \in RegAddrs |->
                    IF a >= reg /\ a < reg + Len(data)
                    THEN data[a - reg + 1] ELSE bus.regs[a]]
            ELSE bus.regs,
   log |-> Append(bus.log, WriteCall(reg, data, status))]

\* The transport status of each call slot when nothing fails.
AllOk == [rd |-> 0, pd |-> 0, qv |-> 0, il |-> 0, frd |-> 0, fwr |-> 0,
          burst |-> 0]

(***************************************************************************)
(* ilps28qsw_mode_set                                                      *)
(***************************************************************************)
\* "ret += ...": the statuses of the calls after the first read are summed.
Accumulate(r, status) == r + status

\* Mutant: the power-down step is skipped.
PowerDownNeeded_Never(ctrl_reg1) == FALSE

\* Line 454: the device is running, so it is powered down first.
PowerDownNeeded(ctrl_reg1) == Get(ctrl_reg1, ctrl_reg1_odr) # 0

\* Mutant: QVAR is left enabled.
QvarDisableNeeded_Never(ctrl_reg3) == FALSE

\* Line 462: QVAR is enabled, so it is disabled first.
QvarDisableNeeded(ctrl_reg3) == Get(ctrl_reg3, ctrl_reg3_ah_qvar_en) # 0

\* Lines 491-495: the requested fields packed into CTRL_REG1 and CTRL_REG2.
ModeCtrlReg1(ctrl_reg1, val) ==
  Put(Put(ctrl_reg1, ctrl_reg1_odr, val.odr), ctrl_reg1_avg, val.avg)

\* Mutant: CTRL_REG2 is built from zero, not from the byte read.
ModeCtrlReg2_FromZero(ctrl_reg2, val) ==
  Put(Put(Put(0, ctrl_reg2_en_lpfp, BitAnd(val.lpf, 0, 1)),
          ctrl_reg2_lfpf_cfg, Shr(BitAnd(val.lpf, 1, 1), 1)),
      ctrl_reg2_fs_mode, val.fs)

ModeCtrlReg2(ctrl_reg2, val) ==
  Put(Put(Put(ctrl_reg2, ctrl_reg2_en_lpfp, BitAnd(val.lpf, 0, 1)),
          ctrl_reg2_lfpf_cfg, Shr(BitAnd(val.lpf, 1, 1), 1)),
      ctrl_reg2_fs_mode, val.fs)

\* Mutant: the FIFO interleave bit is left as it was read.
FifoCtrlInterleave_Keep(fifo_ctrl, val) == fifo_ctrl

\* Line 476: the interleave flag in the FIFO control register.
FifoCtrlInterleave(fifo_ctrl, val) ==
  Put(fifo_ctrl, fifo_ctrl_ah_qvar_p_fifo_en, val.interleaved_mode)

\* Mutant: a step is made only while no call has failed.
StepTaken_WhileOk(r) == r = 0

\* Lines 454-500: no step of the sequence tests ret, so each is made
\* whatever the calls before it returned.
StepTaken(r) == TRUE

\* st gives the status of each transport call; garbage is the content of
\* the local fifo_ctrl, which the driver uses whether or not the read at
\* line 475 filled it.
mode_set(r0, val, st, garbage) ==
  LET b0 == ilps28qsw_read_reg(Bus(r0), ILPS28QSW_CTRL_REG1, 3, st.rd)
  IN
  IF st.rd # 0
  THEN [regs |-> b0.regs, log |-> b0.log, ret |-> st.rd]
  ELSE
    LET reg == ReadData(r0, ILPS28QSW_CTRL_REG1, 3)
        c1 == reg[1]
        c2 == reg[2]
        c3 == reg[3]
        \* power-down
        pd == PowerDownNeeded(c1)
        odr_save == IF pd THEN Get(c1, ctrl_reg1_odr) ELSE 0
        c1a == IF pd THEN Put(c1, ctrl_reg1_odr, 0) ELSE c1
        b1 == IF pd
              THEN ilps28qsw_write_reg(b0, ILPS28QSW_CTRL_REG1, <<c1a>>, st.pd)
              ELSE b0
        ret1 == IF pd THEN Accumulate(0, st.pd) ELSE 0
        \* disable QVAR
        qv == QvarDisableNeeded(c3) /\ StepTaken(ret1)
        ah_qvar_en_save == IF qv THEN Get(c3, ctrl_reg3_ah_qvar_en) ELSE 0
        c3a == IF qv THEN Put(c3, ctrl_reg3_ah_qvar_en, 0) ELSE c3
        b2 == IF qv
              THEN ilps28qsw_write_reg(b1, ILPS28QSW_CTRL_REG3, <<c3a>>, st.qv)
              ELSE b1
        ret2 == IF qv THEN Accumulate(ret1, st.qv) ELSE ret1
        \* set interleaved mode
        c3b == Put(c3a, ctrl_reg3_ah_qvar_p_auto_en, val.interleaved_mode)
        b3 == IF StepTaken(ret2)
              THEN ilps28qsw_write_reg(b2, ILPS28QSW_CTRL_REG3, <<c3b>>, st.il)
              ELSE b2
        ret3 == IF StepTaken(ret2) THEN Accumulate(ret2, st.il) ELSE ret2
        \* set FIFO interleaved mode
        b4 == IF StepTaken(ret3)
              THEN ilps28qsw_read_reg(b3, ILPS28QSW_FIFO_CTRL, 1, st.frd)
              ELSE b3
        ret4 == IF StepTaken(ret3) THEN Accumulate(ret3, st.frd) ELSE ret3
        fc == IF st.frd = 0
              THEN ReadData(b3.regs, ILPS28QSW_FIFO_CTRL, 1)[1]
              ELSE garbage
        fca == FifoCtrlInterleave(fc, val)
        b5 == IF StepTaken(ret4)
              THEN ilps28qsw_write_reg(b4, ILPS28QSW_FIFO_CTRL, <<fca>>, st.fwr)
              ELSE b4
        ret5 == IF StepTaken(ret4) THEN Accumulate(ret4, st.fwr) ELSE ret4
        \* restore the saved values in the local copies
        c3c == IF ah_qvar_en_save # 0
               THEN Put(c3b, ctrl_reg3_ah_qvar_en, ah_qvar_en_save) ELSE c3b
        c1b == IF odr_save # 0 THEN Put(c1a, ctrl_reg1_odr, odr_save) ELSE c1a
        \* the requested rate, averaging, filter and full scale
        c1c == ModeCtrlReg1(c1b, val)
        c2c == ModeCtrlReg2(c2, val)
        b6 == IF StepTaken(ret5)
              THEN ilps28qsw_write_reg(b5, ILPS28QSW_CTRL_REG1,
                                       <<c1c, c2c, c3c>>, st.burst)
              ELSE b5
        ret6 == IF StepTaken(ret5) THEN Accumulate(ret5, st.burst) ELSE ret5
    IN [regs |-> b6.regs, log |-> b6.log, ret |-> ret6]

(***************************************************************************)
(* ilps28qsw_mode_get                                                      *)
(***************************************************************************)
\* Mutant: the code is returned as it is, named or not.
Switch_NoDefault(code, cases, dflt) == code

\* A switch whose cases each return their own label and whose default
\* returns dflt.
Switch(code, cases, dflt) == IF code \in cases THEN code ELSE dflt

\* Line 608: the filter selector rebuilt from the two filter bits.
LpfCode(ctrl_reg2) ==
  BitOr(Shl(Get(ctrl_reg2, ctrl_reg2_lfpf_cfg), 2),
        Get(ctrl_reg2, ctrl_reg2_en_lpfp))

ModeDecode(reg) ==
  [fs |-> Switch(Get(reg[2], ctrl_reg2_fs_mode), FsValues, ILPS28QSW_1260hPa),
   odr |-> Switch(Get(reg[1], ctrl_reg1_odr), OdrValues, ILPS28QSW_ONE_SHOT),
   avg |-> Switch(Get(reg[1], ctrl_reg1_avg), AvgValues, ILPS28QSW_4_AVG),
   lpf |-> Switch(LpfCode(reg[2]), LpfValues, ILPS28QSW_LPF_DISABLE),
   interleaved_mode |-> Get(reg[3], ctrl_reg3_ah_qvar_p_auto_en)]

\* val0 is the caller's descriptor before the call: a failed read leaves it.
mode_get(r0, val0, status) ==
  LET b0 == ilps28qsw_read_reg(Bus(r0), ILPS28QSW_CTRL_REG1, 3, status)
  IN [regs |-> b0.regs, log |-> b0.log, ret |-> status,
      out |-> IF status = 0
              THEN ModeDecode(ReadData(r0, ILPS28QSW_CTRL_REG1, 3))
              ELSE val0]

(***************************************************************************)
(* Inputs.                                                                 *)
(***************************************************************************)
\* Mode descriptors of the documented enumeration domains: every rate, full
\* scale, filter selector and interleave flag, with the lowest and the
\* highest averaging.
AvgInputs == {ILPS28QSW_4_AVG, ILPS28QSW_512_AVG}
MdDomain ==
  [odr : OdrValues, avg : AvgInputs, fs : FsValues, lpf : LpfValues,
   interleaved_mode : {0, 1}]

\* Register contents the device can hold when a call starts: the reset
\* state and contents left by earlier configuration or by another master.
RegFile(c1, c2, c3, fc, fw, ic, tl, th) ==
  [a \in RegAddrs |->
     CASE a = ILPS28QSW_CTRL_REG1 -> c1
       [] a = ILPS28QSW_CTRL_REG2 -> c2
       [] a = ILPS28QSW_CTRL_REG3 -> c3
       [] a = ILPS28QSW_FIFO_CTRL -> fc
       [] a = ILPS28QSW_FIFO_WTM -> fw
       [] a = ILPS28QSW_INTERRUPT_CFG -> ic
       [] a = ILPS28QSW_THS_P_L -> tl
       [] a = ILPS28QSW_THS_P_H -> th
       [] OTHER -> 0]

\* CTRL_REG1..3 and FIFO_CTRL: reset; running at 10 Hz with QVAR enabled
\* and interleaving on in CTRL_REG3 only; running with a reserved rate code
\* and every bit of CTRL_REG2 set, interleaving on in both registers.
PriorModeRegs ==
  {RegFile(0, 0, 1, 0, 0, 0, 0, 0),
   RegFile(154, 16, 161, 5, 0, 0, 0, 0),
   RegFile(250, 255, 33, 31, 0, 0, 0, 0)}

NoCall == [op |-> "none", ret |-> 0]

Start(priors) ==
  /\ regs \in priors
  /\ pre = regs
  /\ op = "none"
  /\ arg = <<>>
  /\ out = <<>>
  /\ ret = 0
  /\ log = <<>>
  /\ prev = NoCall

\* A call that takes a configuration or a request: the caller has read and
\* dropped the results of the call before it (Discard).
Call(name, a, res, o) ==
  /\ op = "none"
  /\ regs' = res.regs
  /\ pre' = regs
  /\ log' = res.log
  /\ ret' = res.ret
  /\ op' = name
  /\ arg' = a
  /\ out' = o
  /\ prev' = [op |-> op, ret |-> ret]

\* A getter: it may follow any call, and the caller keeps the argument of
\* the setter before it to compare.
Getter(name, res) ==
  /\ regs' = res.regs
  /\ pre' = regs
  /\ log' = res.log
  /\ ret' = res.ret
  /\ op' = name
  /\ out' = res.out
  /\ prev' = [op |-> op, ret |-> ret]
  /\ UNCHANGED arg

\* The driver holds no state between calls: the caller drops what the last
\* calls returned, and the device keeps its registers.
Discard ==
  /\ op # "none"
  /\ op' = "none"
  /\ arg' = <<>>
  /\ out' = <<>>
  /\ ret' = 0
  /\ log' = <<>>
  /\ prev' = NoCall
  /\ pre' = regs
  /\ UNCHANGED regs

\* Some transport call of the last driver call returned a non-zero status.
SomeCallFailed == \E i \in 1 .. Len(log) : log[i].st # 0

\* The write calls of a log, in order.
Writes(l) == SelectSeq(l, LAMBDA c : c.rw = "w")

(***************************************************************************)
(* SpecMode: the operating mode is set and read back, every call of the    *)
(* transport succeeding.                                                   *)
(***************************************************************************)
ModeSet ==
  \E val \in MdDomain :
    Call("mode_set", val, mode_set(regs, val, AllOk, 0), <<>>)

ModeGet == Getter("mode_get", mode_get(regs, out, 0))

InitMode == Start(PriorModeRegs)
NextMode == ModeSet \/ ModeGet \/ Discard
SpecMode == InitMode /\ [][NextMode]_vars

\* The device was running with QVAR enabled when the last call started.
RunningWithQvar ==
  /\ Get(pre[ILPS28QSW_CTRL_REG1], ctrl_reg1_odr) # 0
  /\ Get(pre[ILPS28QSW_CTRL_REG3], ctrl_reg3_ah_qvar_en) # 0

IsWrite(c, reg, len) == c.rw = "w" /\ c.reg = reg /\ c.len = len

\* The first four writes of the transition: power-down, QVAR disable, and
\* the interleave flag in CTRL_REG3 and in FIFO_CTRL.
TransitionPrefix(w) ==
  /\ Len(w) >= 5
  /\ IsWrite(w[1], ILPS28QSW_CTRL_REG1, 1)
  /\ Get(w[1].data[1], ctrl_reg1_odr) = 0
  /\ IsWrite(w[2], ILPS28QSW_CTRL_REG3, 1)
  /\ Get(w[2].data[1], ctrl_reg3_ah_qvar_en) = 0
  /\ IsWrite(w[3], ILPS28QSW_CTRL_REG3, 1)
  /\ Get(w[3].data[1], ctrl_reg3_ah_qvar_en) = 0
  /\ Get(w[3].data[1], ctrl_reg3_ah_qvar_p_auto_en) = arg.interleaved_mode
  /\ IsWrite(w[4], ILPS28QSW_FIFO_CTRL, 1)
  /\ Get(w[4].data[1], fifo_ctrl_ah_qvar_p_fifo_en) = arg.interleaved_mode
  /\ IsWrite(w[Len(w)], ILPS28QSW_CTRL_REG1, 3)

\* C1 as stated: running with QVAR enabled, mode_set writes power-down, QVAR
\* disable, the two interleave writes, then restoration writes that put the
\* saved QVAR enable and the saved rate back on the device, and last the
\* 3-register burst at CTRL_REG1.
C1_RestorationWrites ==
  (op = "mode_set" /\ ret = 0 /\ RunningWithQvar) =>
    LET w == Writes(log)
    IN /\ TransitionPrefix(w)
       /\ \E i \in 5 .. Len(w) - 1 :
            /\ w[i].reg = ILPS28QSW_CTRL_REG3
            /\ Get(w[i].data[1], ctrl_reg3_ah_qvar_en)
                 = Get(pre[ILPS28QSW_CTRL_REG3], ctrl_reg3_ah_qvar_en)
       /\ \E j \in 5 .. Len(w) - 1 :
            /\ w[j].reg = ILPS28QSW_CTRL_REG1
            /\ Get(w[j].data[1], ctrl_reg1_odr)
                 = Get(pre[ILPS28QSW_CTRL_REG1], ctrl_reg1_odr)

\* C1 amended: running with QVAR enabled, mode_set makes exactly five
\* writes: power-down (CTRL_REG1, odr = 0), QVAR disable (CTRL_REG3), the
\* interleave flag in CTRL_REG3, then in FIFO_CTRL, and the 3-register burst
\* at CTRL_REG1.  No write restores anything in between: the burst carries
\* the saved QVAR enable together with the requested rate (not the saved
\* one), and the FIFO_CTRL read is the only call between the third and the
\* fourth write.
C1_FiveWrites ==
  (op = "mode_set" /\ ret = 0 /\ RunningWithQvar) =>
    LET w == Writes(log)
    IN /\ TransitionPrefix(w)
       /\ Len(w) = 5
       /\ Len(log) = 7
       /\ log[1] = ReadCall(ILPS28QSW_CTRL_REG1, 3, 0)
       /\ log[5] = ReadCall(ILPS28QSW_FIFO_CTRL, 1, 0)
       /\ Get(w[5].data[3], ctrl_reg3_ah_qvar_en)
            = Get(pre[ILPS28QSW_CTRL_REG3], ctrl_reg3_ah_qvar_en)
       /\ Get(w[5].data[3], ctrl_reg3_ah_qvar_p_auto_en)
            = arg.interleaved_mode
       /\ Get(w[5].data[1], ctrl_reg1_odr) = arg.odr
       /\ regs[ILPS28QSW_CTRL_REG1] = w[5].data[1]
       /\ regs[ILPS28QSW_CTRL_REG3] = w[5].data[3]

\* A mode_set that found the device running at 10 Hz with QVAR enabled and
\* was asked for one-shot with interleaving.
C1_Witness ==
  /\ op = "mode_set"
  /\ ret = 0
  /\ RunningWithQvar
  /\ Get(pre[ILPS28QSW_CTRL_REG1], ctrl_reg1_odr) = ILPS28QSW_10Hz
  /\ arg.odr = ILPS28QSW_ONE_SHOT
  /\ arg.interleaved_mode = 1
  /\ Len(Writes(log)) = 5

\* The device registers after the first n transport calls of the log l on a
\* device that held r.
RECURSIVE DeviceAfter(_, _, _)
DeviceAfter(r, l, n) ==
  IF n = 0
  THEN r
  ELSE
    LET before == DeviceAfter(r, l, n - 1)
    IN IF l[n].rw = "w"
       THEN ilps28qsw_write_reg(Bus(before), l[n].reg, l[n].data, l[n].st).regs
       ELSE before

\* The device neither samples nor has QVAR enabled.
Idle(r) ==
  /\ Get(r[ILPS28QSW_CTRL_REG1], ctrl_reg1_odr) = 0
  /\ Get(r[ILPS28QSW_CTRL_REG3], ctrl_reg3_ah_qvar_en) = 0

\* The interleave bits of CTRL_REG3 and FIFO_CTRL.
InterleaveBits(r) ==
  <<Get(r[ILPS28QSW_CTRL_REG3], ctrl_reg3_ah_qvar_p_auto_en),
    Get(r[ILPS28QSW_FIFO_CTRL], fifo_ctrl_ah_qvar_p_fifo_en)>>

\* C17: in a mode_set whose transport calls all succeed, every write that
\* changes ah_qvar_p_auto_en or ah_qvar_p_fifo_en on the device finds the
\* device with odr = 0 and ah_qvar_en = 0, and when the call ends the
\* device's ah_qvar_en is what it was before the call.
C17_InterleaveChangesWhileIdle ==
  (op = "mode_set" /\ ~SomeCallFailed) =>
    /\ \A n \in 1 .. Len(log) :
         LET before == DeviceAfter(pre, log, n - 1)
             after == DeviceAfter(pre, log, n)
         IN InterleaveBits(before) # InterleaveBits(after) => Idle(before)
    /\ DeviceAfter(pre, log, Len(log)) = regs
    /\ Get(regs[ILPS28QSW_CTRL_REG3], ctrl_reg3_ah_qvar_en)
         = Get(pre[ILPS28QSW_CTRL_REG3], ctrl_reg3_ah_qvar_en)

\* The device was running with QVAR enabled and interleaving on in
\* CTRL_REG3; mode_set turned interleaving off and left QVAR enabled.
C17_Witness ==
  /\ op = "mode_set"
  /\ ~SomeCallFailed
  /\ RunningWithQvar
  /\ InterleaveBits(pre) = <<1, 0>>
  /\ arg.interleaved_mode = 0
  /\ arg.odr = ILPS28QSW_25Hz
  /\ InterleaveBits(regs) = <<0, 0>>
  /\ Get(regs[ILPS28QSW_CTRL_REG3], ctrl_reg3_ah_qvar_en) = 1

\* C2: a successful mode_get right after a successful mode_set(x) returns x.
C2_ModeRoundTrip ==
  (op = "mode_get" /\ ret = 0 /\ prev = [op |-> "mode_set", ret |-> 0]) =>
    out = arg

(***************************************************************************)
(* ilps28qsw_int_on_threshold_mode_set / _get                              *)
(***************************************************************************)
\* Mutant: the high byte is the threshold divided by 255.
ThsHigh_Div255(threshold) == (threshold \div 255) % 256

\* Line 1141: (uint8_t)(val->threshold / 256U).
ThsHigh(threshold) == (threshold \div 256) % 256

\* Line 1142: (uint8_t)(val->threshold - (ths_p_h.ths * 256U)).
ThsLow(threshold, ths_h) == (threshold - (ths_h * 256)) % 256

\* st.rd and st.wr are the statuses of the read and of the write.
int_on_threshold_mode_set(r0, val, st) ==
  LET b0 == ilps28qsw_read_reg(Bus(r0), ILPS28QSW_INTERRUPT_CFG, 3, st.rd)
  IN
  IF st.rd # 0
  THEN [regs |-> b0.regs, log |-> b0.log, ret |-> st.rd]
  ELSE
    LET reg == ReadData(r0, ILPS28QSW_INTERRUPT_CFG, 3)
        interrupt_cfg ==
          Put(Put(reg[1], interrupt_cfg_phe, val.over_th),
              interrupt_cfg_ple, val.under_th)
        ths_p_h == Put(reg[3], ths_p_h_ths, ThsHigh(val.threshold))
        ths_p_l == Put(reg[2], ths_p_l_ths,
                       ThsLow(val.threshold, Get(ths_p_h, ths_p_h_ths)))
        b1 == ilps28qsw_write_reg(b0, ILPS28QSW_INTERRUPT_CFG,
                                  <<interrupt_cfg, ths_p_l, ths_p_h>>, st.wr)
    IN [regs |-> b1.regs, log |-> b1.log, ret |-> st.wr]

\* Lines 1176-1179; the threshold is a uint16_t.
ThresholdDecode(reg) ==
  [over_th |-> Get(reg[1], interrupt_cfg_phe),
   under_th |-> Get(reg[1], interrupt_cfg_ple),
   threshold |->
     ((Get(reg[3], ths_p_h_ths) * 256) + Get(reg[2], ths_p_l_ths)) % 65536]

\* The getter decodes its buffer whatever the read returned: after a failed
\* read the buffer holds garbage.
int_on_threshold_mode_get(r0, status, garbage) ==
  LET b0 == ilps28qsw_read_reg(Bus(r0), ILPS28QSW_INTERRUPT_CFG, 3, status)
  IN [regs |-> b0.regs, log |-> b0.log, ret |-> status,
      out |-> ThresholdDecode(IF status = 0
                              THEN ReadData(r0, ILPS28QSW_INTERRUPT_CFG, 3)
                              ELSE garbage)]

RdWrOk == [rd |-> 0, wr |-> 0]

\* Thresholds over the 16-bit range: the low, the middle and the high end
\* of each byte, 300 = 1 * 256 + 44 among them.
ThsHighInputs == {0, 1, 127, 128, 255}
ThsLowInputs == {0, 1, 44, 255}
ThresholdInputs ==
  {(h * 256) + l : h \in ThsHighInputs, l \in ThsLowInputs}
IntThMdDomain ==
  [threshold : ThresholdInputs, over_th : {0, 1}, under_th : {0, 1}]

\* INTERRUPT_CFG, THS_P_L, THS_P_H: reset; every bit set; a latched
\* interrupt with auto-zero and a threshold of 0x3412.
PriorThresholdRegs ==
  {RegFile(0, 0, 1, 0, 0, 0, 0, 0),
   RegFile(0, 0, 1, 0, 0, 255, 255, 255),
   RegFile(0, 0, 1, 0, 0, 36, 18, 52)}

(***************************************************************************)
(* SpecThreshold: the interrupt threshold is set and read back, every call *)
(* of the transport succeeding.                                            *)
(***************************************************************************)
IntOnThresholdModeSet ==
  \E val \in IntThMdDomain :
    Call("int_on_threshold_mode_set", val,
         int_on_threshold_mode_set(regs, val, RdWrOk), <<>>)

IntOnThresholdModeGet ==
  Getter("int_on_threshold_mode_get",
         int_on_threshold_mode_get(regs, 0, <<0, 0, 0>>))

InitThreshold == Start(PriorThresholdRegs)
NextThreshold == IntOnThresholdModeSet \/ IntOnThresholdModeGet \/ Discard
SpecThreshold == InitThreshold /\ [][NextThreshold]_vars

\* C3: a successful int_on_threshold_mode_set makes one write, a 3-register
\* burst at INTERRUPT_CFG carrying the enable flags, threshold mod 256 in
\* THS_P_L and threshold div 256 in THS_P_H; and a successful
\* int_on_threshold_mode_get right after it returns the same threshold and
\* flags.
C3_ThresholdPackRoundTrip ==
  /\ (op = "int_on_threshold_mode_set" /\ ret = 0) =>
       LET w == Writes(log)
       IN /\ Len(w) = 1
          /\ IsWrite(w[1], ILPS28QSW_INTERRUPT_CFG, 3)
          /\ Get(w[1].data[1], interrupt_cfg_phe) = arg.over_th
          /\ Get(w[1].data[1], interrupt_cfg_ple) = arg.under_th
          /\ w[1].data[2] = arg.threshold % 256
          /\ w[1].data[3] = arg.threshold \div 256
          /\ regs[ILPS28QSW_THS_P_L] = arg.threshold % 256
          /\ regs[ILPS28QSW_THS_P_H] = arg.threshold \div 256
  /\ (/\ op = "int_on_threshold_mode_get"
      /\ ret = 0
      /\ prev = [op |-> "int_on_threshold_mode_set", ret |-> 0]) =>
       out = arg

\* The threshold 300 was written as high byte 1 and low byte 44 over
\* registers that held other values, and read back as 300.
C3_Witness ==
  /\ op = "int_on_threshold_mode_get"
  /\ ret = 0
  /\ prev = [op |-> "int_on_threshold_mode_set", ret |-> 0]
  /\ arg.threshold = 300
  /\ arg.over_th = 1
  /\ out.threshold = 300
  /\ regs[ILPS28QSW_THS_P_H] = 1
  /\ regs[ILPS28QSW_THS_P_L] = 44
  /\ Get(regs[ILPS28QSW_INTERRUPT_CFG], interrupt_cfg_lir) = 1

(***************************************************************************)
(* SpecModeFault: mode_set and mode_get over a transport whose calls may   *)
(* fail.  A failing call returns -1 (as the driver itself does for a NULL  *)
(* context, line 55) or a positive bus error code.                         *)
(***************************************************************************)
StatusValues == {-1, 0, 1}

\* At most MaxFaults transport calls fail within one driver call.
MaxFaults == 2

ModeSetSlots == {"rd", "pd", "qv", "il", "frd", "fwr", "burst"}

\* One status for each transport call mode_set can make.
ModeSetStatuses ==
  {st \in [rd : StatusValues, pd : StatusValues, qv : StatusValues,
           il : StatusValues, frd : StatusValues, fwr : StatusValues,
           burst : StatusValues] :
     Cardinality({k \in ModeSetSlots : st[k] # 0}) <= MaxFaults}

\* What the local fifo_ctrl may hold when the read at line 475 failed.
GarbageBytes == {0, 255}
GarbageFor(status) == IF status = 0 THEN {0} ELSE GarbageBytes

MdFaultInputs ==
  {[odr |-> ILPS28QSW_1Hz, avg |-> ILPS28QSW_4_AVG, fs |-> ILPS28QSW_1260hPa,
    lpf |-> ILPS28QSW_LPF_DISABLE, interleaved_mode |-> 1],
   [odr |-> ILPS28QSW_ONE_SHOT, avg |-> ILPS28QSW_512_AVG,
    fs |-> ILPS28QSW_4060hPa, lpf |-> ILPS28QSW_LPF_ODR_DIV_4,
    interleaved_mode |-> 0]}

ModeSetFault ==
  \E val \in MdFaultInputs, st \in ModeSetStatuses :
    \E garbage \in GarbageFor(st.frd) :
      Call("mode_set", val, mode_set(regs, val, st, garbage), <<>>)

ModeGetFault ==
  \E status \in StatusValues :
    Getter("mode_get", mode_get(regs, out, status))

InitModeFault == Start(PriorModeRegs)
NextModeFault == ModeSetFault \/ ModeGetFault \/ Discard
SpecModeFault == InitModeFault /\ [][NextModeFault]_vars

\* The number of 1 for a condition that holds and 0 for one that does not.
Count(b) == IF b THEN 1 ELSE 0

\* C13: once its first read succeeded, mode_set makes every remaining call
\* of its sequence whatever the calls return: the power-down write and the
\* QVAR-disable write that the registers read call for, then the interleave
\* write to CTRL_REG3, the FIFO_CTRL read, the FIFO_CTRL write and the
\* 3-register burst write at CTRL_REG1.
C13_NoEarlyStop ==
  (op = "mode_set" /\ log[1].st = 0) =>
    LET n == Len(log)
    IN /\ n = 5 + Count(PowerDownNeeded(pre[ILPS28QSW_CTRL_REG1]))
                + Count(QvarDisableNeeded(pre[ILPS28QSW_CTRL_REG3]))
       /\ IsWrite(log[n - 3], ILPS28QSW_CTRL_REG3, 1)
       /\ log[n - 2].rw = "r"
       /\ log[n - 2].reg = ILPS28QSW_FIFO_CTRL
       /\ log[n - 2].len = 1
       /\ IsWrite(log[n - 1], ILPS28QSW_FIFO_CTRL, 1)
       /\ IsWrite(log[n], ILPS28QSW_CTRL_REG1, 3)

\* The interleave write to CTRL_REG3 failed, the calls after it were made
\* all the same, the burst failed too, and mode_set returned a non-zero
\* status with the new interleave flag in FIFO_CTRL only.
C13_Witness ==
  /\ op = "mode_set"
  /\ Len(log) = 5
  /\ log[1].st = 0
  /\ log[2].st # 0
  /\ log[4].st = 0
  /\ log[5].st # 0
  /\ ret # 0
  /\ Get(regs[ILPS28QSW_CTRL_REG3], ctrl_reg3_ah_qvar_p_auto_en) = 0
  /\ arg.interleaved_mode = 1
  /\ Get(pre[ILPS28QSW_FIFO_CTRL], fifo_ctrl_ah_qvar_p_fifo_en) = 0
  /\ Get(regs[ILPS28QSW_FIFO_CTRL], fifo_ctrl_ah_qvar_p_fifo_en) = 1

\* C4: whenever a transport call made by mode_set returned a non-zero
\* status, mode_set returns a non-zero status.
C4_FailureReported ==
  (op = "mode_set" /\ SomeCallFailed) => ret # 0

(***************************************************************************)
(* Sample conversion: ilps28qsw_data_get and ilps28qsw_fifo_data_get.      *)
(***************************************************************************)
\* C's integer division, which truncates toward zero.
CDiv(a, b) ==
  LET q == a \div b IN IF a < 0 /\ a % b # 0 THEN q + 1 ELSE q

\* Lines 715-717 and 991-993: the three bytes, lowest first, as an int32_t
\* in 0 .. 2^24 - 1.
Raw24(buf) == (((buf[3] * 256) + buf[2]) * 256) + buf[1]

\* Lines 718 and 994: raw * 256 in int32_t.  From 2^23 on the signed
\* multiplication overflows, which is undefined: the value stored is the
\* wrapped product, t * 256 - 2^32, on the builds considered here.
RawTimes256(t) == IF t < 2 ^ 23 THEN t * 256 ELSE (t - (2 ^ 24)) * 256

\* How a build evaluates raw / 256 of lines 742 and 1018 when raw * 256
\* overflowed: "wrap" divides the wrapped product; "fold" returns the value
\* before the multiplication, as a compiler may since (x * 256) / 256 is x
\* whenever the product does not overflow.
Builds == {"wrap", "fold"}

QvarLsb(t, build) ==
  IF build = "fold" THEN t ELSE CDiv(RawTimes256(t), 256)

\* The float results, kept exact as a quotient: raw is a multiple of 256
\* below 2^31 in magnitude and both divisors are powers of two, so the
\* float division is exact.
Zero_hPa == [num |-> 0, den |-> 1]
ilps28qsw_from_fs1260_to_hPa(lsb) == [num |-> lsb, den |-> 1048576]
ilps28qsw_from_fs4060_to_hPa(lsb) == [num |-> lsb, den |-> 524288]

\* The switch on md->fs (lines 725-736, 748-759, 1001-1012, 1024-1035).
PressureOf(fs, raw) ==
  CASE fs = ILPS28QSW_1260hPa -> ilps28qsw_from_fs1260_to_hPa(raw)
    [] fs = ILPS28QSW_4060hPa -> ilps28qsw_from_fs4060_to_hPa(raw)
    [] OTHER -> Zero_hPa

\* Lines 720-722 and 996-998: in interleaved mode bit 0 of the lowest byte
\* tags a QVAR sample.
IsQvarSample(md, buf) == md.interleaved_mode = 1 /\ buf[1] % 2 # 0

\* One sample: the raw code, the pressure and the QVAR code.
Demux(buf, md, build) ==
  LET t == Raw24(buf)
      raw == RawTimes256(t)
  IN IF IsQvarSample(md, buf)
     THEN [raw |-> raw, hpa |-> Zero_hPa, lsb |-> QvarLsb(t, build)]
     ELSE [raw |-> raw, hpa |-> PressureOf(md.fs, raw), lsb |-> 0]

\* The value of a 16-bit pattern as an int16_t.
Wrap16(x) ==
  LET m == x % (2 ^ 16) IN IF m >= 2 ^ 15 THEN m - (2 ^ 16) ELSE m

\* read.data is what buff holds after the read (what the device delivered,
\* or garbage when the read failed), read.st the status of the read.
data_get(r0, md, read, build) ==
  LET b0 == ilps28qsw_read_reg(Bus(r0), ILPS28QSW_PRESS_OUT_XL, 5, read.st)
      s == Demux(<<read.data[1], read.data[2], read.data[3]>>, md, build)
      heat == Wrap16((read.data[5] * 256) + read.data[4])
  IN [regs |-> b0.regs, log |-> b0.log, ret |-> read.st,
      out |-> [pressure |-> [raw |-> s.raw, hpa |-> s.hpa],
               ah_qvar |-> [lsb |-> s.lsb],
               heat |-> [raw |-> heat,
                         deg_c |-> [num |-> heat, den |-> 100]]]]

\* Mutant: the loop stops at the first failed read.
FifoContinue_StopOnError(i, samp, r) == i < samp /\ r = 0

\* Line 988: the loop condition.
FifoContinue(i, samp, r) == i < samp

\* Line 990: "ret = ...": the status of each read replaces the one before.
FifoStatus(r, status) == status

RECURSIVE FifoLoop(_, _, _, _, _, _)
FifoLoop(i, samp, md, reads, build, acc) ==
  IF ~FifoContinue(i, samp, acc.ret)
  THEN acc
  ELSE
    LET read == reads[i + 1]
        bus == ilps28qsw_read_reg([regs |-> acc.regs, log |-> acc.log],
                                  ILPS28QSW_FIFO_DATA_OUT_PRESS_XL, 3, read.st)
    IN FifoLoop(i + 1, samp, md, reads, build,
                [regs |-> bus.regs, log |-> bus.log,
                 ret |-> FifoStatus(acc.ret, read.st),
                 out |-> Append(acc.out, Demux(read.data, md, build))])

\* reads[i] is the i-th read: what fifo_data holds after it and its status.
fifo_data_get(r0, samp, md, reads, build) ==
  FifoLoop(0, samp, md, reads, build,
           [regs |-> r0, log |-> <<>>, ret |-> 0, out |-> <<>>])

(***************************************************************************)
(* SpecData: samples are read from the output registers and from the FIFO  *)
(* over a transport whose reads may fail.                                  *)
(***************************************************************************)
\* The most samples one fifo_data_get is asked for.
MaxSamples == 2

\* Raw samples, lowest byte first: zero; the smallest QVAR code; the
\* largest positive pressure code; QVAR -1; the most negative code, tagged
\* as pressure; a negative QVAR code.
FifoSamples ==
  {<<0, 0, 0>>, <<1, 0, 0>>, <<254, 255, 127>>, <<255, 255, 255>>,
   <<0, 0, 128>>, <<3, 2, 129>>}

\* Temperature codes: 2500 and -1.
HeatSamples == {<<196, 9>>, <<255, 255>>}

\* The descriptor the caller passes: interleaving off, on, and a flag value
\* that is neither.
MdDataInputs ==
  [odr : {ILPS28QSW_1Hz}, avg : {ILPS28QSW_4_AVG}, fs : FsValues,
   lpf : {ILPS28QSW_LPF_DISABLE}, interleaved_mode : {0, 1, 2}]

\* What one FIFO read may deliver: a QVAR code, the most negative pressure
\* code or a negative QVAR code, with any status.
FifoReads ==
  [data : {<<1, 0, 0>>, <<0, 0, 128>>, <<3, 2, 129>>}, st : StatusValues]

FifoDataGet ==
  \E samp \in 0 .. MaxSamples, md \in MdDataInputs, build \in Builds :
    \E reads \in [1 .. samp -> FifoReads] :
      LET res == fifo_data_get(regs, samp, md, reads, build)
      IN Call("fifo_data_get", [samp |-> samp, md |-> md, reads |-> reads],
              res, res.out)

DataGet ==
  \E md \in MdDataInputs, build \in Builds, s \in FifoSamples,
     h \in HeatSamples, status \in StatusValues :
    LET read == [data |-> s \o h, st |-> status]
        res == data_get(regs, md, read, build)
    IN Call("data_get", [md |-> md, read |-> read], res, res.out)

InitData == Start({RegFile(0, 0, 1, 0, 0, 0, 0, 0)})
NextData == FifoDataGet \/ DataGet \/ Discard
SpecData == InitData /\ [][NextData]_vars

\* C5: a fifo_data_get in which any of the reads returned a non-zero status
\* returns a non-zero status.
C5_FifoFailureReported ==
  (op = "fifo_data_get" /\ SomeCallFailed) => ret # 0

\* The signed 24-bit value of three bytes, lowest first.
Signed24(buf) ==
  LET t == Raw24(buf) IN IF t >= 2 ^ 23 THEN t - (2 ^ 24) ELSE t

\* What C7 says of one sample s decoded from the bytes buf under md.
DemuxAsStated(s, buf, md) ==
  IF md.interleaved_mode = 1 /\ buf[1] % 2 = 1
  THEN s.hpa.num = 0 /\ s.lsb = Signed24(buf) /\ s.lsb # 0
  ELSE s.lsb = 0 /\ s.hpa = PressureOf(md.fs, Signed24(buf) * 256)

\* C7: data_get, and fifo_data_get for each element, report a tagged sample
\* of interleaved mode as QVAR (zero pressure, the signed 24-bit code) and
\* every other sample as pressure (QVAR zero, the formula of md.fs).  Only
\* samples that the transport delivered are looked at.
C7_InterleavedDemux ==
  /\ (op = "data_get" /\ ret = 0) =>
       DemuxAsStated([hpa |-> out.pressure.hpa, lsb |-> out.ah_qvar.lsb],
                     SubSeq(arg.read.data, 1, 3), arg.md)
  /\ op = "fifo_data_get" =>
       \A i \in 1 .. Len(out) :
         arg.reads[i].st = 0 =>
           DemuxAsStated(out[i], arg.reads[i].data, arg.md)

\* C15: for every 5-byte read, data_get returns as pressure.raw the signed
\* 24-bit value of the first three bytes times 256, as the QVAR code of a
\* QVAR sample that signed 24-bit value itself, and as heat.raw the signed
\* 16-bit value of the last two bytes, whatever the tag bit, md.fs and
\* md.interleaved_mode are.
C15_RawReconstruction ==
  (op = "data_get" /\ ret = 0) =>
    LET buf == arg.read.data
        code == Signed24(SubSeq(buf, 1, 3))
        heat == (buf[5] * 256) + buf[4]
    IN /\ out.pressure.raw = code * 256
       /\ IsQvarSample(arg.md, buf) => out.ah_qvar.lsb = code
       /\ out.heat.raw = (IF heat >= 2 ^ 15 THEN heat - (2 ^ 16) ELSE heat)

\* C8: fifo_data_get(count) makes exactly count transport calls, each a
\* 3-byte read of FIFO_DATA_OUT_PRESS_XL, whatever the reads return, and
\* leaves the registers alone.
C8_ExactlyCountReads ==
  op = "fifo_data_get" =>
    /\ Len(log) = arg.samp
    /\ \A i \in 1 .. Len(log) :
         log[i] = ReadCall(ILPS28QSW_FIFO_DATA_OUT_PRESS_XL, 3,
                           arg.reads[i].st)
    /\ Len(out) = arg.samp
    /\ regs = pre

\* Two samples were asked for, the first read failed, and the second read
\* was made all the same.
C8_Witness ==
  /\ op = "fifo_data_get"
  /\ arg.samp = 2
  /\ arg.reads[1].st # 0
  /\ Len(log) = 2
  /\ log[2].rw = "r"

(***************************************************************************)
(* ilps28qsw_fifo_mode_set / _get                                          *)
(***************************************************************************)
\* Mutant: stop-on-watermark is left as it was read.
StopOnWtm_Keep(fifo_ctrl, watermark) == Get(fifo_ctrl, fifo_ctrl_stop_on_wtm)

\* Lines 879-886: stop-on-watermark follows the watermark.
StopOnWtm(fifo_ctrl, watermark) ==
  IF watermark # 0 THEN PROPERTY_ENABLE ELSE PROPERTY_DISABLE

\* Mutant: trig_modes is taken from bit 1 of the operation.
TrigModes_Bit1(operation) == Shr(BitAnd(operation, 1, 1), 1)

\* Line 877: ((uint8_t)val->operation & 0x04U) >> 2.
TrigModes(operation) == Shr(BitAnd(operation, 2, 1), 2)

fifo_mode_set(r0, val, st) ==
  LET b0 == ilps28qsw_read_reg(Bus(r0), ILPS28QSW_FIFO_CTRL, 2, st.rd)
  IN
  IF st.rd # 0
  THEN [regs |-> b0.regs, log |-> b0.log, ret |-> st.rd]
  ELSE
    LET reg == ReadData(r0, ILPS28QSW_FIFO_CTRL, 2)
        f1 == Put(reg[1], fifo_ctrl_f_mode, BitAnd(val.operation, 0, 2))
        f2 == Put(f1, fifo_ctrl_trig_modes, TrigModes(val.operation))
        fifo_ctrl == Put(f2, fifo_ctrl_stop_on_wtm,
                         StopOnWtm(f2, val.watermark))
        fifo_wtm == Put(reg[2], fifo_wtm_wtm, val.watermark)
        b1 == ilps28qsw_write_reg(b0, ILPS28QSW_FIFO_CTRL,
                                  <<fifo_ctrl, fifo_wtm>>, st.wr)
    IN [regs |-> b1.regs, log |-> b1.log, ret |-> st.wr]

\* Lines 918-943.
FifoModeDecode(reg) ==
  [operation |->
     Switch(BitOr(Shl(Get(reg[1], fifo_ctrl_trig_modes), 2),
                  Get(reg[1], fifo_ctrl_f_mode)),
            FifoOperationValues, ILPS28QSW_BYPASS),
   watermark |-> Get(reg[2], fifo_wtm_wtm)]

\* The getter decodes its buffer whatever the read returned.
fifo_mode_get(r0, status, garbage) ==
  LET b0 == ilps28qsw_read_reg(Bus(r0), ILPS28QSW_FIFO_CTRL, 2, status)
  IN [regs |-> b0.regs, log |-> b0.log, ret |-> status,
      out |-> FifoModeDecode(IF status = 0
                             THEN ReadData(r0, ILPS28QSW_FIFO_CTRL, 2)
                             ELSE garbage)]

\* Watermark levels: none, the lowest, 50, the middle and the highest.
WatermarkInputs == {0, 1, 50, 64, 127}
FifoMdDomain == [operation : FifoOperationValues, watermark : WatermarkInputs]

\* FIFO_CTRL and FIFO_WTM: reset; stop-on-watermark and the FIFO interleave
\* bit set with a watermark of 10; every bit set.
PriorFifoRegs ==
  {RegFile(0, 0, 1, 0, 0, 0, 0, 0),
   RegFile(0, 0, 33, 26, 10, 0, 0, 0),
   RegFile(0, 0, 1, 255, 255, 0, 0, 0)}

(***************************************************************************)
(* SpecFifo: the FIFO mode is set and read back, every call of the         *)
(* transport succeeding.                                                   *)
(***************************************************************************)
FifoModeSet ==
  \E val \in FifoMdDomain :
    Call("fifo_mode_set", val, fifo_mode_set(regs, val, RdWrOk), <<>>)

FifoModeGet == Getter("fifo_mode_get", fifo_mode_get(regs, 0, <<0, 0>>))

InitFifo == Start(PriorFifoRegs)
NextFifo == FifoModeSet \/ FifoModeGet \/ Discard
SpecFifo == InitFifo /\ [][NextFifo]_vars

\* C9: after a successful fifo_mode_set, stop_on_wtm is 0 for a watermark of
\* 0 and 1 for any other watermark, whatever it was before, and FIFO_WTM
\* holds the watermark.
C9_WatermarkRule ==
  (op = "fifo_mode_set" /\ ret = 0) =>
    /\ Get(regs[ILPS28QSW_FIFO_CTRL], fifo_ctrl_stop_on_wtm)
         = (IF arg.watermark = 0 THEN 0 ELSE 1)
    /\ Get(regs[ILPS28QSW_FIFO_WTM], fifo_wtm_wtm) = arg.watermark

\* A watermark of 0 cleared a stop_on_wtm that was set.
C9_Witness ==
  /\ op = "fifo_mode_set"
  /\ ret = 0
  /\ arg.watermark = 0
  /\ Get(pre[ILPS28QSW_FIFO_CTRL], fifo_ctrl_stop_on_wtm) = 1
  /\ Get(regs[ILPS28QSW_FIFO_CTRL], fifo_ctrl_stop_on_wtm) = 0

\* C10: a successful fifo_mode_get right after a successful
\* fifo_mode_set(x) returns the operation mode and the watermark of x.
C10_FifoRoundTrip ==
  (/\ op = "fifo_mode_get"
   /\ ret = 0
   /\ prev = [op |-> "fifo_mode_set", ret |-> 0]) =>
    out = arg

\* Stream-to-FIFO with a watermark of 50 was read back.
C10_Witness ==
  /\ op = "fifo_mode_get"
  /\ ret = 0
  /\ prev = [op |-> "fifo_mode_set", ret |-> 0]
  /\ arg.operation = ILPS28QSW_STREAM_TO_FIFO
  /\ arg.watermark = 50
  /\ out = arg

(***************************************************************************)
(* The other read-modify-write setters and their getters.                  *)
(***************************************************************************)
\* Lines 258-298.
init_set(r0, val, st) ==
  LET b0 == ilps28qsw_read_reg(Bus(r0), ILPS28QSW_CTRL_REG2, 2, st.rd)
  IN
  IF st.rd # 0
  THEN [regs |-> b0.regs, log |-> b0.log, ret |-> st.rd]
  ELSE
    LET reg == ReadData(r0, ILPS28QSW_CTRL_REG2, 2)
        b1 ==
          CASE val = ILPS28QSW_BOOT ->
                 ilps28qsw_write_reg(b0, ILPS28QSW_CTRL_REG2,
                   <<Put(reg[1], ctrl_reg2_boot, PROPERTY_ENABLE)>>, st.wr)
            [] val = ILPS28QSW_DRV_RDY ->
                 ilps28qsw_write_reg(b0, ILPS28QSW_CTRL_REG2,
                   <<Put(reg[1], ctrl_reg2_bdu, PROPERTY_ENABLE),
                     Put(reg[2], ctrl_reg3_if_add_inc, PROPERTY_ENABLE)>>,
                   st.wr)
            [] OTHER ->
                 ilps28qsw_write_reg(b0, ILPS28QSW_CTRL_REG2,
                   <<Put(reg[1], ctrl_reg2_swreset, PROPERTY_ENABLE)>>, st.wr)
    IN [regs |-> b1.regs, log |-> b1.log, ret |-> st.wr]

\* Mutant: the trigger is written whatever the descriptor says.
TriggerWanted_Always(md) == TRUE

\* Line 642: the trigger looks at the caller's descriptor only.
TriggerWanted(md) == md.odr = ILPS28QSW_ONE_SHOT

\* Lines 637-652.
trigger_sw(r0, md, st) ==
  IF ~TriggerWanted(md)
  THEN [regs |-> r0, log |-> <<>>, ret |-> 0]
  ELSE
    LET b0 == ilps28qsw_read_reg(Bus(r0), ILPS28QSW_CTRL_REG2, 1, st.rd)
    IN
    IF st.rd # 0
    THEN [regs |-> b0.regs, log |-> b0.log, ret |-> st.rd]
    ELSE
      LET reg == ReadData(r0, ILPS28QSW_CTRL_REG2, 1)
          b1 == ilps28qsw_write_reg(b0, ILPS28QSW_CTRL_REG2,
                  <<Put(reg[1], ctrl_reg2_oneshot, PROPERTY_ENABLE)>>, st.wr)
      IN [regs |-> b1.regs, log |-> b1.log, ret |-> st.wr]

\* Mutant: the byte is written back whatever the read returned.
ReadModifyWrite_Always(r0, reg, byte, st) ==
  LET b0 == ilps28qsw_read_reg(Bus(r0), reg, 1, st.rd)
      b1 == ilps28qsw_write_reg(b0, reg, <<byte>>, st.wr)
  IN [regs |-> b1.regs, log |-> b1.log, ret |-> st.wr]

\* A setter that reads one register, assigns fields and writes it back:
\* byte is the register as read with the fields assigned.
ReadModifyWrite(r0, reg, byte, st) ==
  LET b0 == ilps28qsw_read_reg(Bus(r0), reg, 1, st.rd)
  IN
  IF st.rd # 0
  THEN [regs |-> b0.regs, log |-> b0.log, ret |-> st.rd]
  ELSE
    LET b1 == ilps28qsw_write_reg(b0, reg, <<byte>>, st.wr)
    IN [regs |-> b1.regs, log |-> b1.log, ret |-> st.wr]

\* What a getter's one-byte buffer holds after the read.
ReadByte(r0, reg, status, garbage) ==
  IF status = 0 THEN r0[reg] ELSE garbage

\* Lines 662-676.
ah_qvar_en_set(r0, val, st) ==
  ReadModifyWrite(r0, ILPS28QSW_CTRL_REG3,
                  Put(r0[ILPS28QSW_CTRL_REG3], ctrl_reg3_ah_qvar_en, val), st)

\* Lines 686-695: the buffer is decoded whatever the read returned.
ah_qvar_en_get(r0, status, garbage) ==
  LET b0 == ilps28qsw_read_reg(Bus(r0), ILPS28QSW_CTRL_REG3, 1, status)
      b == ReadByte(r0, ILPS28QSW_CTRL_REG3, status, garbage)
  IN [regs |-> b0.regs, log |-> b0.log, ret |-> status,
      out |-> Get(b, ctrl_reg3_ah_qvar_en)]

\* Lines 1064-1079.
interrupt_mode_set(r0, val, st) ==
  ReadModifyWrite(r0, ILPS28QSW_INTERRUPT_CFG,
                  Put(r0[ILPS28QSW_INTERRUPT_CFG], interrupt_cfg_lir,
                      val.int_latched), st)

\* Lines 1089-1100.
interrupt_mode_get(r0, status, garbage) ==
  LET b0 == ilps28qsw_read_reg(Bus(r0), ILPS28QSW_INTERRUPT_CFG, 1, status)
      b == ReadByte(r0, ILPS28QSW_INTERRUPT_CFG, status, garbage)
  IN [regs |-> b0.regs, log |-> b0.log, ret |-> status,
      out |-> [int_latched |-> Get(b, interrupt_cfg_lir)]]

\* Mutant: the reset bits are left as they were read.
ReferenceEncode_NoReset(b, val) ==
  Put(Put(b, interrupt_cfg_autozero, val.get_ref),
      interrupt_cfg_autorefp, BitAnd(val.apply_ref, 0, 1))

\* Lines 1215-1219: the fields reference_mode_set assigns.
ReferenceEncode(b, val) ==
  Put(Put(Put(Put(b, interrupt_cfg_autozero, val.get_ref),
              interrupt_cfg_autorefp, BitAnd(val.apply_ref, 0, 1)),
          interrupt_cfg_reset_az, Shr(BitAnd(val.apply_ref, 1, 1), 1)),
      interrupt_cfg_reset_arp, Shr(BitAnd(val.apply_ref, 1, 1), 1))

\* Lines 1205-1225.
reference_mode_set(r0, val, st) ==
  ReadModifyWrite(r0, ILPS28QSW_INTERRUPT_CFG,
                  ReferenceEncode(r0[ILPS28QSW_INTERRUPT_CFG], val), st)

\* Lines 1243-1256: the default of the switch is ILPS28QSW_RST_REFS.
ReferenceDecode(b) ==
  [apply_ref |->
     Switch(BitOr(Shl(Get(b, interrupt_cfg_reset_az), 1),
                  Get(b, interrupt_cfg_autorefp)),
            {ILPS28QSW_OUT_AND_INTERRUPT, ILPS28QSW_ONLY_INTERRUPT},
            ILPS28QSW_RST_REFS),
   get_ref |-> Get(b, interrupt_cfg_autozero)]

\* Lines 1235-1259.
reference_mode_get(r0, status, garbage) ==
  LET b0 == ilps28qsw_read_reg(Bus(r0), ILPS28QSW_INTERRUPT_CFG, 1, status)
      b == ReadByte(r0, ILPS28QSW_INTERRUPT_CFG, status, garbage)
  IN [regs |-> b0.regs, log |-> b0.log, ret |-> status,
      out |-> ReferenceDecode(b)]

(***************************************************************************)
(* SpecConfig: the configuration calls in any order, every call of the     *)
(* transport succeeding.                                                   *)
(***************************************************************************)
MdConfigInputs ==
  [odr : {ILPS28QSW_ONE_SHOT, ILPS28QSW_25Hz}, avg : {ILPS28QSW_4_AVG},
   fs : {ILPS28QSW_1260hPa}, lpf : {ILPS28QSW_LPF_DISABLE},
   interleaved_mode : {0, 1}]

FifoMdConfigInputs ==
  {[operation |-> ILPS28QSW_BYPASS, watermark |-> 0],
   [operation |-> ILPS28QSW_STREAM_TO_FIFO, watermark |-> 50]}

\* CTRL_REG1..3 and FIFO_CTRL: reset; running with QVAR enabled and
\* interleaving on in both registers; interleaving on in CTRL_REG3 only.
PriorConfigRegs ==
  {RegFile(0, 0, 1, 0, 0, 0, 0, 0),
   RegFile(154, 16, 161, 21, 0, 0, 0, 0),
   RegFile(0, 0, 33, 0, 0, 0, 0, 0)}

ConfigModeSet ==
  \E val \in MdConfigInputs :
    Call("mode_set", val, mode_set(regs, val, AllOk, 0), <<>>)

ConfigFifoModeSet ==
  \E val \in FifoMdConfigInputs :
    Call("fifo_mode_set", val, fifo_mode_set(regs, val, RdWrOk), <<>>)

AhQvarEnSet ==
  \E val \in {0, 1} :
    Call("ah_qvar_en_set", val, ah_qvar_en_set(regs, val, RdWrOk), <<>>)

TriggerSw ==
  \E md \in MdConfigInputs :
    Call("trigger_sw", md, trigger_sw(regs, md, RdWrOk), <<>>)

InitSetDrvRdy ==
  Call("init_set", ILPS28QSW_DRV_RDY,
       init_set(regs, ILPS28QSW_DRV_RDY, RdWrOk), <<>>)

ConfigIntOnThresholdModeSet ==
  LET val == [threshold |-> 300, over_th |-> 1, under_th |-> 0]
  IN Call("int_on_threshold_mode_set", val,
          int_on_threshold_mode_set(regs, val, RdWrOk), <<>>)

InterruptModeSet ==
  LET val == [int_latched |-> 1]
  IN Call("interrupt_mode_set", val,
          interrupt_mode_set(regs, val, RdWrOk), <<>>)

ReferenceModeSet ==
  LET val == [apply_ref |-> ILPS28QSW_ONLY_INTERRUPT, get_ref |-> 1]
  IN Call("reference_mode_set", val,
          reference_mode_set(regs, val, RdWrOk), <<>>)

AhQvarEnGet == Getter("ah_qvar_en_get", ah_qvar_en_get(regs, 0, 0))

InterruptModeGet ==
  Getter("interrupt_mode_get", interrupt_mode_get(regs, 0, 0))

ReferenceModeGet ==
  Getter("reference_mode_get", reference_mode_get(regs, 0, 0))

InitConfig == Start(PriorConfigRegs)
NextConfig ==
  \/ ConfigModeSet
  \/ ConfigFifoModeSet
  \/ AhQvarEnSet
  \/ TriggerSw
  \/ InitSetDrvRdy
  \/ ConfigIntOnThresholdModeSet
  \/ InterruptModeSet
  \/ ReferenceModeSet
  \/ ModeGet
  \/ FifoModeGet
  \/ AhQvarEnGet
  \/ IntOnThresholdModeGet
  \/ InterruptModeGet
  \/ ReferenceModeGet
  \/ Discard
SpecConfig == InitConfig /\ [][NextConfig]_vars

\* The interleave bit of CTRL_REG3 and the one of FIFO_CTRL.
AutoEn(r) == Get(r[ILPS28QSW_CTRL_REG3], ctrl_reg3_ah_qvar_p_auto_en)
FifoEn(r) == Get(r[ILPS28QSW_FIFO_CTRL], fifo_ctrl_ah_qvar_p_fifo_en)

\* C6: a successful driver call that starts with the two interleave bits
\* equal ends with them equal, and after a successful mode_set(val) both
\* equal val.interleaved_mode.
C6_InterleaveBitsAgree ==
  /\ (op # "none" /\ ret = 0 /\ AutoEn(pre) = FifoEn(pre)) =>
       AutoEn(regs) = FifoEn(regs)
  /\ (op = "mode_set" /\ ret = 0) =>
       /\ AutoEn(regs) = arg.interleaved_mode
       /\ FifoEn(regs) = arg.interleaved_mode

\* A fifo_mode_set on a device that mode_set had put in interleaved mode
\* changed FIFO_CTRL and left the two bits set.
C6_Witness ==
  /\ op = "fifo_mode_set"
  /\ ret = 0
  /\ AutoEn(pre) = 1
  /\ FifoEn(pre) = 1
  /\ pre[ILPS28QSW_FIFO_CTRL] # regs[ILPS28QSW_FIFO_CTRL]
  /\ AutoEn(regs) = 1
  /\ FifoEn(regs) = 1

(***************************************************************************)
(* SpecReference: the reference mode is set and read back over every       *)
(* content of INTERRUPT_CFG, every call of the transport succeeding.       *)
(***************************************************************************)
RefMdDomain ==
  [apply_ref : {ILPS28QSW_OUT_AND_INTERRUPT, ILPS28QSW_ONLY_INTERRUPT,
                ILPS28QSW_RST_REFS},
   get_ref : {0, 1}]

PriorReferenceRegs == {RegFile(0, 0, 1, 0, 0, ic, 0, 0) : ic \in Byte}

ReferenceModeSetAny ==
  \E val \in RefMdDomain :
    Call("reference_mode_set", val, reference_mode_set(regs, val, RdWrOk),
         <<>>)

InitReference == Start(PriorReferenceRegs)
NextReference == ReferenceModeSetAny \/ ReferenceModeGet \/ Discard
SpecReference == InitReference /\ [][NextReference]_vars

\* The 2-bit selector (reset_az, autorefp) held by a register file.
RefPattern(r) ==
  (2 * Get(r[ILPS28QSW_INTERRUPT_CFG], interrupt_cfg_reset_az))
    + Get(r[ILPS28QSW_INTERRUPT_CFG], interrupt_cfg_autorefp)

\* C11: a successful reference_mode_get right after a successful
\* reference_mode_set(x) returns the apply_ref and get_ref of x, and a
\* (reset_az, autorefp) combination that is none of the named patterns
\* decodes to the default state ILPS28QSW_RST_REFS.
C11_ReferenceRoundTrip ==
  /\ (/\ op = "reference_mode_get"
      /\ ret = 0
      /\ prev = [op |-> "reference_mode_set", ret |-> 0]) =>
       out = arg
  /\ (/\ op = "reference_mode_get"
      /\ ret = 0
      /\ RefPattern(pre) \notin {ILPS28QSW_OUT_AND_INTERRUPT,
                                 ILPS28QSW_ONLY_INTERRUPT}) =>
       out.apply_ref = ILPS28QSW_RST_REFS

\* RST_REFS with get_ref = 1 was written over a register whose reset bits
\* were clear, and read back.
C11_Witness ==
  /\ op = "reference_mode_get"
  /\ ret = 0
  /\ prev = [op |-> "reference_mode_set", ret |-> 0]
  /\ arg = [apply_ref |-> ILPS28QSW_RST_REFS, get_ref |-> 1]
  /\ out = arg
  /\ RefPattern(regs) = 2

(***************************************************************************)
(* SpecTrigger: the software trigger with every descriptor, over devices   *)
(* that hold any rate, the read and the write returning any status.        *)
(***************************************************************************)
RdWrStatuses == [rd : StatusValues, wr : StatusValues]

TriggerSwAny ==
  \E md \in MdDomain, st \in RdWrStatuses :
    Call("trigger_sw", [md |-> md, st |-> st], trigger_sw(regs, md, st),
         <<>>)

InitTrigger == Start(PriorModeRegs)
NextTrigger == TriggerSwAny \/ ModeGet \/ Discard
SpecTrigger == InitTrigger /\ [][NextTrigger]_vars

\* CTRL_REG2 as trigger_sw writes it back: the byte read with oneshot set.
TriggerByte(r) ==
  Put(r[ILPS28QSW_CTRL_REG2], ctrl_reg2_oneshot, PROPERTY_ENABLE)

\* C12: trigger_sw(md) with md.odr other than one-shot makes no transport
\* call, leaves the registers alone and returns 0; with md.odr one-shot and
\* a successful read it writes CTRL_REG2 back with oneshot set and the
\* other bits as read; the rate held by the device plays no part.
C12_TriggerOnlyOneShot ==
  op = "trigger_sw" =>
    IF arg.md.odr # ILPS28QSW_ONE_SHOT
    THEN log = <<>> /\ regs = pre /\ ret = 0
    ELSE
      /\ Len(log) >= 1
      /\ log[1] = ReadCall(ILPS28QSW_CTRL_REG2, 1, arg.st.rd)
      /\ arg.st.rd = 0 =>
           /\ Len(log) = 2
           /\ log[2] = WriteCall(ILPS28QSW_CTRL_REG2, <<TriggerByte(pre)>>,
                                 arg.st.wr)
           /\ ret = arg.st.wr
           /\ arg.st.wr = 0 =>
                regs = [pre EXCEPT ![ILPS28QSW_CTRL_REG2] = TriggerByte(pre)]

\* A one-shot trigger on a device that runs at a continuous rate set the
\* oneshot bit; the other bits of CTRL_REG2 were not all zero.
C12_Witness ==
  /\ op = "trigger_sw"
  /\ arg.md.odr = ILPS28QSW_ONE_SHOT
  /\ ret = 0
  /\ Get(pre[ILPS28QSW_CTRL_REG1], ctrl_reg1_odr) # 0
  /\ pre[ILPS28QSW_CTRL_REG2] = 16
  /\ regs[ILPS28QSW_CTRL_REG2] = 17

(***************************************************************************)
(* SpecModeGet: mode_get over devices that hold every CTRL_REG1 byte with  *)
(* every combination of the full-scale and filter bits of CTRL_REG2.       *)
(***************************************************************************)
\* CTRL_REG2 with each combination of en_lpfp, lfpf_cfg and fs_mode, the
\* other bits clear, and with every other bit set as well.
CtrlReg2Inputs == {16 * k : k \in 0 .. 7} \cup {(16 * k) + 143 : k \in 0 .. 7}

PriorModeGetRegs ==
  {RegFile(c1, c2, c3, 0, 0, 0, 0, 0) :
     c1 \in Byte, c2 \in CtrlReg2Inputs, c3 \in {1, 161, 255}}

InitModeGet == Start(PriorModeGetRegs)
NextModeGet == ModeGet \/ Discard
SpecModeGet == InitModeGet /\ [][NextModeGet]_vars

\* The filter selector as mode_set lays it out: en_lpfp is bit 0 and
\* lfpf_cfg bit 1.
LpfBits(ctrl_reg2) ==
  (2 * Get(ctrl_reg2, ctrl_reg2_lfpf_cfg)) + Get(ctrl_reg2, ctrl_reg2_en_lpfp)

\* C14: whatever CTRL_REG1..CTRL_REG3 hold, a successful mode_get makes one
\* 3-register read at CTRL_REG1 and no write, and returns odr, avg, fs and
\* lpf inside their enumerations; a reserved rate code decodes to one-shot
\* and filter bits that name no selector decode to LPF_DISABLE.
C14_ModeGetTotal ==
  (op = "mode_get" /\ ret = 0) =>
    /\ log = <<ReadCall(ILPS28QSW_CTRL_REG1, 3, 0)>>
    /\ regs = pre
    /\ out.odr \in OdrValues
    /\ out.avg \in AvgValues
    /\ out.fs \in FsValues
    /\ out.lpf \in LpfValues
    /\ Get(pre[ILPS28QSW_CTRL_REG1], ctrl_reg1_odr) > ILPS28QSW_200Hz =>
         out.odr = ILPS28QSW_ONE_SHOT
    /\ LpfBits(pre[ILPS28QSW_CTRL_REG2]) \notin LpfValues =>
         out.lpf = ILPS28QSW_LPF_DISABLE

\* The device held the reserved rate code 15 and lfpf_cfg without en_lpfp.
C14_Witness ==
  /\ op = "mode_get"
  /\ ret = 0
  /\ Get(pre[ILPS28QSW_CTRL_REG1], ctrl_reg1_odr) = 15
  /\ LpfBits(pre[ILPS28QSW_CTRL_REG2]) = 2
  /\ out.odr = ILPS28QSW_ONE_SHOT
  /\ out.lpf = ILPS28QSW_LPF_DISABLE

(***************************************************************************)
(* ilps28qsw_opc_set / _get                                                *)
(***************************************************************************)
\* (uint16_t)val of an int16_t val.
U16(val) == val % (2 ^ 16)

\* Lines 1295-1296: reg[0] and reg[1], the low byte first.
OpcEncode(val) == <<BitAnd(U16(val), 0, 8), BitAnd(U16(val), 8, 8) \div 256>>

\* Lines 1290-1301.
opc_set(r0, val, status) ==
  LET b0 == ilps28qsw_write_reg(Bus(r0), ILPS28QSW_RPDS_L, OpcEncode(val),
                                status)
  IN [regs |-> b0.regs, log |-> b0.log, ret |-> status]

\* Mutant: the two bytes are not narrowed to int16_t.
OpcDecode_Unsigned(reg) == (reg[2] * 256) + reg[1]

\* Lines 1318-1319: the sum is computed in int and stored in an int16_t.
OpcDecode(reg) == Wrap16((reg[2] * 256) + reg[1])

\* Lines 1311-1322: the buffer is decoded whatever the read returned.
opc_get(r0, status, garbage) ==
  LET b0 == ilps28qsw_read_reg(Bus(r0), ILPS28QSW_RPDS_L, 2, status)
  IN [regs |-> b0.regs, log |-> b0.log, ret |-> status,
      out |-> OpcDecode(IF status = 0
                        THEN ReadData(r0, ILPS28QSW_RPDS_L, 2)
                        ELSE garbage)]

(***************************************************************************)
(* SpecOpc: the offset is set and read back, every call of the transport   *)
(* succeeding.                                                             *)
(***************************************************************************)
\* Offsets around zero reach OpcSpan on either side.
OpcSpan == 150

\* Offsets: around zero, across the byte boundaries, and at both ends of
\* int16_t.
OpcInputs ==
  (-OpcSpan .. OpcSpan)
    \cup {-32768, -32767, -32513, -32512, -32511, -257, -256, -255}
    \cup {255, 256, 257, 32511, 32512, 32513, 32766, 32767}

OpcSet ==
  \E val \in OpcInputs : Call("opc_set", val, opc_set(regs, val, 0), <<>>)

OpcGet == Getter("opc_get", opc_get(regs, 0, <<0, 0>>))

InitOpc ==
  Start({RegFile(0, 0, 1, 0, 0, 0, 0, 0),
         [RegFile(0, 0, 1, 0, 0, 0, 0, 0) EXCEPT ![ILPS28QSW_RPDS_L] = 255,
                                                 ![ILPS28QSW_RPDS_H] = 127]})
NextOpc == OpcSet \/ OpcGet \/ Discard
SpecOpc == InitOpc /\ [][NextOpc]_vars

\* C16: opc_set(v) makes one 2-byte write at RPDS_L of the low byte then
\* the high byte of the two's-complement pattern of v, unscaled, and a
\* successful opc_get after it returns v.
C16_OpcRoundTrip ==
  /\ (op = "opc_set" /\ ret = 0) =>
       /\ log = <<WriteCall(ILPS28QSW_RPDS_L,
                            <<(arg + 65536) % 256,
                              ((arg + 65536) % 65536) \div 256>>, 0)>>
       /\ regs[ILPS28QSW_RPDS_L] = (arg + 65536) % 256
       /\ regs[ILPS28QSW_RPDS_H] = ((arg + 65536) % 65536) \div 256
  /\ (/\ op = "opc_get"
      /\ ret = 0
      /\ prev = [op |-> "opc_set", ret |-> 0]) =>
       out = arg

\* The offset -2 was stored as 0xFE 0xFF and read back.
C16_Witness ==
  /\ op = "opc_get"
  /\ ret = 0
  /\ prev = [op |-> "opc_set", ret |-> 0]
  /\ arg = -2
  /\ regs[ILPS28QSW_RPDS_L] = 254
  /\ regs[ILPS28QSW_RPDS_H] = 255
  /\ out = -2

(***************************************************************************)
(* SpecFrame: the read-modify-write setters in any order over devices with *)
(* bits set outside every setting, every call of the transport succeeding. *)
(* Here arg is the caller's record of what it passed to each setter last,  *)
(* <<>> for a setter not called yet.                                       *)
(***************************************************************************)
FrameSetters ==
  {"mode_set", "fifo_mode_set", "ah_qvar_en_set",
   "int_on_threshold_mode_set", "reference_mode_set", "interrupt_mode_set"}

MdFrameInputs ==
  {[odr |-> ILPS28QSW_ONE_SHOT, avg |-> ILPS28QSW_4_AVG,
    fs |-> ILPS28QSW_1260hPa, lpf |-> ILPS28QSW_LPF_DISABLE,
    interleaved_mode |-> 0],
   [odr |-> ILPS28QSW_200Hz, avg |-> ILPS28QSW_512_AVG,
    fs |-> ILPS28QSW_4060hPa, lpf |-> ILPS28QSW_LPF_ODR_DIV_9,
    interleaved_mode |-> 1]}

IntThFrameInputs ==
  {[threshold |-> 0, over_th |-> 0, under_th |-> 0],
   [threshold |-> 32767, over_th |-> 1, under_th |-> 1]}

RefFrameInputs ==
  {[apply_ref |-> ILPS28QSW_ONLY_INTERRUPT, get_ref |-> 0],
   [apply_ref |-> ILPS28QSW_RST_REFS, get_ref |-> 1]}

\* The reset state, and every bit of every register set.
PriorFrameRegs ==
  {RegFile(0, 0, 1, 0, 0, 0, 0, 0),
   RegFile(255, 255, 255, 255, 255, 255, 255, 255)}

FrameCall(name, a, res) ==
  /\ regs' = res.regs
  /\ pre' = regs
  /\ log' = res.log
  /\ ret' = res.ret
  /\ op' = name
  /\ arg' = [arg EXCEPT ![name] = a]
  /\ out' = <<>>
  /\ prev' = [op |-> op, ret |-> ret]

FrameModeSet ==
  \E val \in MdFrameInputs :
    FrameCall("mode_set", val, mode_set(regs, val, AllOk, 0))

FrameFifoModeSet ==
  LET val == [operation |-> ILPS28QSW_BYPASS_TO_FIFO, watermark |-> 50]
  IN FrameCall("fifo_mode_set", val, fifo_mode_set(regs, val, RdWrOk))

FrameAhQvarEnSet ==
  FrameCall("ah_qvar_en_set", 0, ah_qvar_en_set(regs, 0, RdWrOk))

FrameIntOnThresholdModeSet ==
  \E val \in IntThFrameInputs :
    FrameCall("int_on_threshold_mode_set", val,
              int_on_threshold_mode_set(regs, val, RdWrOk))

FrameReferenceModeSet ==
  \E val \in RefFrameInputs :
    FrameCall("reference_mode_set", val,
              reference_mode_set(regs, val, RdWrOk))

FrameInterruptModeSet ==
  \E val \in [int_latched : {0, 1}] :
    FrameCall("interrupt_mode_set", val,
              interrupt_mode_set(regs, val, RdWrOk))

InitFrame ==
  /\ regs \in PriorFrameRegs
  /\ pre = regs
  /\ op = "none"
  /\ arg = [n \in FrameSetters |-> <<>>]
  /\ out = <<>>
  /\ ret = 0
  /\ log = <<>>
  /\ prev = NoCall

NextFrame ==
  \/ FrameModeSet
  \/ FrameFifoModeSet
  \/ FrameAhQvarEnSet
  \/ FrameIntOnThresholdModeSet
  \/ FrameReferenceModeSet
  \/ FrameInterruptModeSet
  \/ IntOnThresholdModeGet
  \/ ReferenceModeGet
  \/ InterruptModeGet
SpecFrame == InitFrame /\ [][NextFrame]_vars

\* The fields that make up the setting of each setter, as <<register,
\* field>> pairs.
OwnFields(name) ==
  CASE name = "mode_set" ->
         {<<ILPS28QSW_CTRL_REG1, ctrl_reg1_odr>>,
          <<ILPS28QSW_CTRL_REG1, ctrl_reg1_avg>>,
          <<ILPS28QSW_CTRL_REG2, ctrl_reg2_en_lpfp>>,
          <<ILPS28QSW_CTRL_REG2, ctrl_reg2_lfpf_cfg>>,
          <<ILPS28QSW_CTRL_REG2, ctrl_reg2_fs_mode>>,
          <<ILPS28QSW_CTRL_REG3, ctrl_reg3_ah_qvar_p_auto_en>>,
          <<ILPS28QSW_FIFO_CTRL, fifo_ctrl_ah_qvar_p_fifo_en>>}
    [] name = "fifo_mode_set" ->
         {<<ILPS28QSW_FIFO_CTRL, fifo_ctrl_f_mode>>,
          <<ILPS28QSW_FIFO_CTRL, fifo_ctrl_trig_modes>>,
          <<ILPS28QSW_FIFO_CTRL, fifo_ctrl_stop_on_wtm>>,
          <<ILPS28QSW_FIFO_WTM, fifo_wtm_wtm>>}
    [] name = "ah_qvar_en_set" ->
         {<<ILPS28QSW_CTRL_REG3, ctrl_reg3_ah_qvar_en>>}
    [] name = "int_on_threshold_mode_set" ->
         {<<ILPS28QSW_INTERRUPT_CFG, interrupt_cfg_phe>>,
          <<ILPS28QSW_INTERRUPT_CFG, interrupt_cfg_ple>>,
          <<ILPS28QSW_THS_P_L, ths_p_l_ths>>,
          <<ILPS28QSW_THS_P_H, ths_p_h_ths>>}
    [] name = "reference_mode_set" ->
         {<<ILPS28QSW_INTERRUPT_CFG, interrupt_cfg_autozero>>,
          <<ILPS28QSW_INTERRUPT_CFG, interrupt_cfg_autorefp>>,
          <<ILPS28QSW_INTERRUPT_CFG, interrupt_cfg_reset_az>>,
          <<ILPS28QSW_INTERRUPT_CFG, interrupt_cfg_reset_arp>>}
    [] name = "interrupt_mode_set" ->
         {<<ILPS28QSW_INTERRUPT_CFG, interrupt_cfg_lir>>}
    [] OTHER -> {}

\* Bit n of the byte b.
Bit(b, n) == (b \div (2 ^ n)) % 2

\* Bit n of register a belongs to the setting of the setter name.
Owns(name, a, n) ==
  \E f \in OwnFields(name) :
    f[1] = a /\ n >= f[2].lo /\ n < f[2].lo + f[2].w

\* C18: a successful setter leaves every register bit outside its own
\* setting as it was before the call, and after any interleaving of the
\* setters that share INTERRUPT_CFG each of their getters returns what its
\* own setter was given last.
C18_SettersKeepOtherBits ==
  /\ (op \in FrameSetters /\ ret = 0) =>
       \A a \in RegAddrs, n \in 0 .. 7 :
         ~Owns(op, a, n) => Bit(regs[a], n) = Bit(pre[a], n)
  /\ (/\ op = "int_on_threshold_mode_get"
      /\ ret = 0
      /\ arg["int_on_threshold_mode_set"] # <<>>) =>
       out = arg["int_on_threshold_mode_set"]
  /\ (/\ op = "reference_mode_get"
      /\ ret = 0
      /\ arg["reference_mode_set"] # <<>>) =>
       out = arg["reference_mode_set"]
  /\ (/\ op = "interrupt_mode_get"
      /\ ret = 0
      /\ arg["interrupt_mode_set"] # <<>>) =>
       out = arg["interrupt_mode_set"]

\* On a device with every bit set, the latch setting written first was
\* read back after the threshold, the reference mode and the operating mode
\* had been set, mode_set leaving the other bits of CTRL_REG2 set.
C18_Witness ==
  /\ op = "interrupt_mode_get"
  /\ ret = 0
  /\ prev.op = "mode_set"
  /\ arg["interrupt_mode_set"] = [int_latched |-> 0]
  /\ arg["int_on_threshold_mode_set"] # <<>>
  /\ arg["reference_mode_set"] # <<>>
  /\ arg["mode_set"] # <<>>
  /\ out = [int_latched |-> 0]
  /\ Get(regs[ILPS28QSW_CTRL_REG2], ctrl_reg2_bdu) = 1
  /\ Get(regs[ILPS28QSW_CTRL_REG2], ctrl_reg2_boot) = 1
  /\ Get(regs[ILPS28QSW_INTERRUPT_CFG], interrupt_cfg_phe) = 1

(***************************************************************************)
(* ilps28qsw_bus_mode_set and ilps28qsw_pin_conf_set                       *)
(***************************************************************************)
\* Lines 180-196.
bus_mode_set(r0, val, st) ==
  ReadModifyWrite(r0, ILPS28QSW_I3C_IF_CTRL,
                  Put(Put(r0[ILPS28QSW_I3C_IF_CTRL], i3c_if_ctrl_asf_on,
                          BitAnd(val.filter, 0, 1)),
                      i3c_if_ctrl_I3C_Bus_Avb_Sel,
                      BitAnd(val.bus_avb_time, 0, 2)), st)

\* Lines 351-365.
pin_conf_set(r0, val, st) ==
  ReadModifyWrite(r0, ILPS28QSW_IF_CTRL,
                  Put(r0[ILPS28QSW_IF_CTRL], if_ctrl_sda_pu_en,
                      val.sda_pull_up), st)

(***************************************************************************)
(* SpecReadFault: every read-modify-write setter over a transport whose    *)
(* first read returns any status.                                          *)
(***************************************************************************)
\* The first read returns any status and the write after it succeeds.
ReadStatuses == [rd : StatusValues, wr : {0}]

RmwSetters ==
  {"bus_mode_set", "init_set", "pin_conf_set", "mode_set", "trigger_sw",
   "ah_qvar_en_set", "fifo_mode_set", "interrupt_mode_set",
   "int_on_threshold_mode_set", "reference_mode_set"}

\* One call of a setter with the value val and the statuses st.
FaultCall(name, val, st, res) ==
  Call(name, [val |-> val, st |-> st], res, <<>>)

FaultBusModeSet ==
  \E st \in ReadStatuses :
    LET val == [filter |-> 1, bus_avb_time |-> 2]
    IN FaultCall("bus_mode_set", val, st, bus_mode_set(regs, val, st))

FaultInitSet ==
  \E st \in ReadStatuses,
     val \in {ILPS28QSW_DRV_RDY, ILPS28QSW_BOOT, ILPS28QSW_RESET} :
    FaultCall("init_set", val, st, init_set(regs, val, st))

FaultPinConfSet ==
  \E st \in ReadStatuses :
    LET val == [sda_pull_up |-> 1]
    IN FaultCall("pin_conf_set", val, st, pin_conf_set(regs, val, st))

FaultModeSet ==
  \E st \in ReadStatuses, val \in MdFaultInputs :
    FaultCall("mode_set", val, st,
              mode_set(regs, val, [AllOk EXCEPT !.rd = st.rd], 0))

FaultTriggerSw ==
  \E st \in ReadStatuses, val \in MdFaultInputs :
    FaultCall("trigger_sw", val, st, trigger_sw(regs, val, st))

FaultAhQvarEnSet ==
  \E st \in ReadStatuses :
    FaultCall("ah_qvar_en_set", 1, st, ah_qvar_en_set(regs, 1, st))

FaultFifoModeSet ==
  \E st \in ReadStatuses :
    LET val == [operation |-> ILPS28QSW_STREAM, watermark |-> 50]
    IN FaultCall("fifo_mode_set", val, st, fifo_mode_set(regs, val, st))

FaultInterruptModeSet ==
  \E st \in ReadStatuses :
    LET val == [int_latched |-> 1]
    IN FaultCall("interrupt_mode_set", val, st,
                 interrupt_mode_set(regs, val, st))

FaultIntOnThresholdModeSet ==
  \E st \in ReadStatuses :
    LET val == [threshold |-> 300, over_th |-> 1, under_th |-> 0]
    IN FaultCall("int_on_threshold_mode_set", val, st,
                 int_on_threshold_mode_set(regs, val, st))

FaultReferenceModeSet ==
  \E st \in ReadStatuses :
    LET val == [apply_ref |-> ILPS28QSW_ONLY_INTERRUPT, get_ref |-> 1]
    IN FaultCall("reference_mode_set", val, st,
                 reference_mode_set(regs, val, st))

InitReadFault == Start({RegFile(0, 0, 1, 0, 0, 0, 0, 0)})
NextReadFault ==
  \/ FaultBusModeSet
  \/ FaultInitSet
  \/ FaultPinConfSet
  \/ FaultModeSet
  \/ FaultTriggerSw
  \/ FaultAhQvarEnSet
  \/ FaultFifoModeSet
  \/ FaultInterruptModeSet
  \/ FaultIntOnThresholdModeSet
  \/ FaultReferenceModeSet
  \/ Discard
SpecReadFault == InitReadFault /\ [][NextReadFault]_vars

\* C19: a read-modify-write setter whose first read returned a non-zero
\* status made no other transport call, left the registers as they were and
\* returned the status of that read.
C19_NoWriteAfterFailedRead ==
  (op \in RmwSetters /\ log # <<>> /\ log[1].st # 0) =>
    /\ Len(log) = 1
    /\ log[1].rw = "r"
    /\ regs = pre
    /\ ret = log[1].st

\* pin_conf_set found its read of IF_CTRL failing with status 1 on a device
\* that earlier setters had configured.
C19_Witness ==
  /\ op = "pin_conf_set"
  /\ arg.st.rd = 1
  /\ log = <<ReadCall(ILPS28QSW_IF_CTRL, 1, 1)>>
  /\ ret = 1
  /\ regs = pre
  /\ regs[ILPS28QSW_CTRL_REG1] # 0
  /\ regs[ILPS28QSW_INTERRUPT_CFG] # 0

====
